---- MODULE Spec2Model ----
(***************************************************************************)
(* The asynchronous upload-job pipeline of the GitHub ZIP uploader:        *)
(* the in-memory job registry (MemStorage), the access validator           *)
(* (validateGitHubAccess), the remote writer (uploadFileToGitHub), the     *)
(* orchestrator (processZipUpload) and the HTTP handlers that start and    *)
(* poll a job.                                                             *)
(*                                                                         *)
(* An action is one run-to-completion segment of the JavaScript code: the  *)
(* code between two awaits whose promise is settled by I/O.  Text is a     *)
(* sequence of string tokens (concatenation is \o); a file name is the     *)
(* sequence of its '/'-separated segments.                                 *)
(***************************************************************************)
EXTENDS Integers, Sequences, FiniteSets, TLC

----------------------------------------------------------------------------
(* Bounds of the model *)

\* small archives hold 0..MaxFiles files; remote faults are explored on the
\* first MaxFiles entries of any archive
MaxFiles == 2
\* the size of the one large archive
LargeN == 201
MaxClock == 2

JobIds == {"job1", "job2"}

----------------------------------------------------------------------------
(* Text and values *)

Last(s) == s[Len(s)]

IsPrefix(s, t) == Len(s) <= Len(t) /\ SubSeq(t, 1, Len(s)) = s

\* an Error object: error.status (0 when undefined) and error.message
Err(status, message) == [status |-> status, message |-> message]

----------------------------------------------------------------------------
(* shared/schema: the submitted fields *)

Tokens == {"tokenA", "tokenB"}

UrlGood == << <<"https:">>, <<>>, <<"github.com">>, <<"octo">>, <<"repo", ".git">> >>
UrlNoRepo == << <<"https:">>, <<>>, <<"github.com">>, <<"octo">> >>

Urls == {UrlGood, UrlNoRepo}

CommitMessages == {<<>>, <<"sync">>}

InsertUploadJobs ==
    [githubToken : Tokens,
     repositoryUrl : Urls,
     targetBranch : {"main"},
     commitMessage : CommitMessages,
     preserveStructure : BOOLEAN,
     overwriteFiles : BOOLEAN]

----------------------------------------------------------------------------
(* The archive (JSZip) *)

\* the name of the k-th file of an archive: odd files sit at the top level,
\* even files in the folder "src"
FileName(k) == IF k % 2 = 1 THEN <<ToString(k)>> ELSE <<"src", ToString(k)>>

\* zipContent.files of an archive with n files, in archive order: the folder
\* entry precedes the files
ZipEntries(n) ==
    (IF n >= 2 THEN <<[name |-> <<"src">>, dir |-> TRUE]>> ELSE <<>>)
    \o [k \in 1..n |-> [name |-> FileName(k), dir |-> FALSE]]

\* a zipBuffer: corrupt bytes, or the bytes of an archive with n files
ZipBuffer(corrupt, n) == [corrupt |-> corrupt, n |-> n]

NotDir(entry) == ~entry.dir

EntryName(entries) == [k \in 1..Len(entries) |-> entries[k].name]

\* Files, were the directory entries not filtered out
FilesWithDirs(zipBuffer) == EntryName(ZipEntries(zipBuffer.n))

\* Object.keys(zipContent.files).filter(fileName => !zipContent.files[fileName].dir)
Files(zipBuffer) == EntryName(SelectSeq(ZipEntries(zipBuffer.n), NotDir))

----------------------------------------------------------------------------
(* MemStorage *)

VARIABLES
    uploadJobs,   \* MemStorage.uploadJobs: a Map from job id to UploadJob
    clock,        \* the reading of new Date()
    pc,           \* per job id: where its handler / processZipUpload run stands
    run,          \* per job id: the arguments and locals of processZipUpload
    calls,        \* per job id: the awaited I/O calls (JSZip entry reads, Octokit
                  \* requests) its run has made, in order, and how each settled
    response,     \* per job id: the responses POST /api/upload has sent for it
    polled,       \* the last response of GET /api/upload/:jobId (<<>> before the first)
    callers,      \* per caller of the registry: the call it made and what it returned
    preflight,    \* per request to POST /api/github/validate: where its handler
                  \* stands, its body, its remote calls and its response
    refused       \* the last refusal of a request to POST /api/upload (<<>> before
                  \* the first)

vars == <<uploadJobs, clock, pc, run, calls, response, polled,
          callers, preflight, refused>>

LogEntry(now, level, message) ==
    [timestamp |-> now, level |-> level, message |-> message]

\* { ...a, ...b }
Spread(a, b) ==
    [k \in DOMAIN a \cup DOMAIN b |-> IF k \in DOMAIN b THEN b[k] ELSE a[k]]

\* NewUploadJob, were the record created with an empty log
NewUploadJobNoLog(insertJob, id, now) ==
    Spread(insertJob,
           [id |-> id, status |-> "pending", progress |-> 0, filesProcessed |-> 0,
            totalFiles |-> 0, logs |-> <<>>, createdAt |-> now, updatedAt |-> now])

\* the record createUploadJob builds
NewUploadJob(insertJob, id, now) ==
    Spread(insertJob,
           [id |-> id,
            status |-> "pending",
            progress |-> 0,
            filesProcessed |-> 0,
            totalFiles |-> 0,
            logs |-> <<LogEntry(now, "info", <<"Job cree avec succes">>)>>,
            createdAt |-> now,
            updatedAt |-> now])

\* MemStorage.createUploadJob: the Map after the call
CreateUploadJob(jobs, insertJob, id, now) ==
    [k \in DOMAIN jobs \cup {id} |->
        IF k = id THEN NewUploadJob(insertJob, id, now) ELSE jobs[k]]

\* UpdatedJob, were the updates merged into the record as it was created
\* rather than as it is stored
UpdatedJobDropsOthers(job, updates, now) ==
    Spread(Spread(Spread(job, [status |-> "pending", progress |-> 0,
                               filesProcessed |-> 0, totalFiles |-> 0]),
                  updates),
           [updatedAt |-> now])

\* UpdatedJob, were an update to stamp the creation time too
UpdatedJobRestamps(job, updates, now) ==
    Spread(Spread(job, updates), [createdAt |-> now, updatedAt |-> now])

\* the record updateUploadJob stores: { ...job, ...updates, updatedAt }
UpdatedJob(job, updates, now) ==
    Spread(Spread(job, updates), [updatedAt |-> now])

\* UpdateUploadJob, were the updates merged into every stored record
UpdateUploadJobShared(jobs, id, updates, now) ==
    IF id \notin DOMAIN jobs
    THEN jobs
    ELSE [k \in DOMAIN jobs |-> UpdatedJob(jobs[k], updates, now)]

\* UpdateUploadJob, were an unknown id to get a record of the updates
UpdateUploadJobCreates(jobs, id, updates, now) ==
    [k \in DOMAIN jobs \cup {id} |->
        IF k # id
        THEN jobs[k]
        ELSE IF id \in DOMAIN jobs
        THEN UpdatedJob(jobs[id], updates, now)
        ELSE Spread(updates, [id |-> id, updatedAt |-> now])]

\* MemStorage.updateUploadJob: the Map after the call
UpdateUploadJob(jobs, id, updates, now) ==
    IF id \notin DOMAIN jobs
    THEN jobs
    ELSE [jobs EXCEPT ![id] = UpdatedJob(jobs[id], updates, now)]

\* GetUploadJob, were a read to miss the entry count of the record
GetUploadJobTorn(jobs, id) ==
    IF id \in DOMAIN jobs THEN <<[jobs[id] EXCEPT !.totalFiles = 0]>> ELSE <<>>

\* MemStorage.getUploadJob: undefined is the empty sequence
GetUploadJob(jobs, id) ==
    IF id \in DOMAIN jobs THEN <<jobs[id]>> ELSE <<>>

----------------------------------------------------------------------------
(* The remote service (Octokit): what a call can answer *)

\* how an awaited call settles: it resolves (with the sha member of its data,
\* "" when the data has none) or rejects with an Error (a status and a message)
Resolved(sha) == [ok |-> TRUE, status |-> 200, message |-> <<>>, sha |-> sha]
Rejected(status, message) ==
    [ok |-> FALSE, status |-> status, message |-> message, sha |-> ""]

\* remote faults and varying answers are explored on the first MaxFiles
\* entries of an archive; later entries get the plain answer
Explored(i) == i < MaxFiles

\* octokit.rest.repos.get
ReposGetOutcomes ==
    {Resolved(""),
     Rejected(401, <<"Bad credentials">>),
     Rejected(404, <<"Not Found">>),
     Rejected(500, <<"Server Error">>)}

\* octokit.rest.repos.getContent: a file (with its sha), a directory listing
\* (an array: no sha member), not found, or another failure
GetContentOutcomes(i) ==
    IF Explored(i)
    THEN {Resolved("sha1"),
          Resolved(""),
          Rejected(404, <<"Not Found">>),
          Rejected(500, <<"Server Error">>)}
    ELSE {Rejected(404, <<"Not Found">>)}

\* octokit.rest.repos.createOrUpdateFileContents
PutOutcomes(i) ==
    IF Explored(i)
    THEN {Resolved(""), Rejected(422, <<"Invalid request">>)}
    ELSE {Resolved("")}

\* file.async("base64")
ReadOutcomes(i) ==
    IF Explored(i)
    THEN {Resolved(""), Rejected(0, <<"Corrupted zip entry">>)}
    ELSE {Resolved("")}

\* LoadOutcome, were JSZip to accept any bytes
LoadOutcomeLenient(zipBuffer) == Resolved("")

\* zip.loadAsync(zipBuffer)
LoadOutcome(zipBuffer) ==
    IF zipBuffer.corrupt
    THEN Rejected(0, <<"Can't find end of central directory">>)
    ELSE Resolved("")

\* one call with its arguments, not yet settled
Call(op, auth, owner, repo, path, branch, message, content, sha) ==
    [op |-> op, auth |-> auth, owner |-> owner, repo |-> repo, path |-> path,
     branch |-> branch, message |-> message, content |-> content, sha |-> sha,
     settled |-> "pending", status |-> 0, error |-> <<>>, data |-> ""]

\* Settle, were the run to go on without the outcome of its call
SettleLeavesPending(history, res) == history

\* the last call of a run settles
Settle(history, res) ==
    [history EXCEPT ![Len(history)] =
        [@ EXCEPT !.settled = IF res.ok THEN "resolved" ELSE "rejected",
                  !.status = res.status,
                  !.error = res.message,
                  !.data = res.sha]]

----------------------------------------------------------------------------
(* validateGitHubAccess *)

Min(S) == CHOOSE x \in S : \A y \in S : x <= y

\* the positions at which /github\.com\/([^\/]+)\/([^\/]+)/ matches: a segment
\* that ends with github.com, followed by two non-empty segments
MatchPositions(url) ==
    {k \in 1..Len(url) :
        /\ url[k] # <<>>
        /\ Last(url[k]) = "github.com"
        /\ k + 2 <= Len(url)
        /\ url[k + 1] # <<>>
        /\ url[k + 2] # <<>>}

\* repoUrl.match(...): <<>> for null, else <<owner, repo>> of the leftmost match
UrlMatch(url) ==
    IF MatchPositions(url) = {}
    THEN <<>>
    ELSE LET k == Min(MatchPositions(url)) IN <<url[k + 1], url[k + 2]>>

\* repo.replace('.git', ''): the first occurrence is removed
ReplaceDotGit(repo) ==
    LET at == {k \in 1..Len(repo) : repo[k] = ".git"} IN
    IF at = {}
    THEN repo
    ELSE SubSeq(repo, 1, Min(at) - 1) \o SubSeq(repo, Min(at) + 1, Len(repo))

ErrInvalidUrl == Err(0, <<"URL de depot GitHub invalide">>)

\* the catch block of validateGitHubAccess: the error it throws for a caught one
ValidatorError(error) ==
    IF error.status = 401
    THEN Err(0, <<"Token GitHub invalide ou expire">>)
    ELSE IF error.status = 404
    THEN Err(0, <<"Depot non trouve ou pas d'acces">>)
    ELSE Err(0, <<"Erreur GitHub: ">> \o error.message)

----------------------------------------------------------------------------
(* uploadFileToGitHub *)

\* a file name as text: its segments joined by "/"
RECURSIVE Text(_)
Text(name) ==
    IF Len(name) <= 1
    THEN name
    ELSE <<Head(name), "/">> \o Text(Tail(name))

\* the outer catch block of uploadFileToGitHub
UploadError(path, error) ==
    Err(0, <<"Erreur lors de l'upload de ">> \o Text(path) \o <<": ">> \o error.message)

\* LookupSha, were the sha of the lookup not kept
LookupShaDropped(res) == ""

\* the sha the lookup leaves: data.sha if 'sha' in data, undefined ("") after a 404
LookupSha(res) == IF res.ok THEN res.sha ELSE ""

----------------------------------------------------------------------------
(* processZipUpload: the updates it sends to the registry *)

\* ProcessingUpdate, were the first update to log the start and leave the status
ProcessingUpdateKeepsPending(now) ==
    [logs |-> <<LogEntry(now, "info", <<"Debut de l'extraction du fichier ZIP">>)>>]

ProcessingUpdate(now) ==
    [status |-> "processing",
     logs |-> <<LogEntry(now, "info", <<"Debut de l'extraction du fichier ZIP">>)>>]

\* TotalUpdate, were the count only logged and not stored
TotalUpdateLogsOnly(files, now) ==
    [logs |-> <<LogEntry(now, "info",
                         <<ToString(Len(files)), " fichiers detectes dans le ZIP">>)>>]

TotalUpdate(files, now) ==
    [totalFiles |-> Len(files),
     logs |-> <<LogEntry(now, "info",
                         <<ToString(Len(files)), " fichiers detectes dans le ZIP">>)>>]

\* Progress, were it the share of the entries not yet started
ProgressRemaining(i, n) == (200 * (n - i) + n) \div (2 * n)

\* Math.round((i / n) * 100), 0 <= i < n: the nearest integer, a half rounds up.
\* (For the archive sizes of this model i / n * 100 never lies at a half, so
\* the double arithmetic rounds as the exact quotient does.)
Progress(i, n) == (200 * i + n) \div (2 * n)

\* ProgressUpdate, were the entry being started counted as processed
ProgressUpdateCountsStarted(files, i) ==
    [currentFile |-> Text(files[i + 1]),
     filesProcessed |-> i + 1,
     progress |-> Progress(i, Len(files))]

ProgressUpdate(files, i) ==
    [currentFile |-> Text(files[i + 1]),
     filesProcessed |-> i,
     progress |-> Progress(i, Len(files))]

\* UploadedUpdate, were the entry of the file to replace the log
UploadedUpdateReplaces(currentJob, fileName, now) ==
    [logs |-> <<LogEntry(now, "info", <<"Fichier uploade: ">> \o Text(fileName))>>]

UploadedUpdate(currentJob, fileName, now) ==
    [logs |-> Append(currentJob.logs,
                     LogEntry(now, "info", <<"Fichier uploade: ">> \o Text(fileName)))]

\* FileErrorUpdate, were a file's failure to be stored as the job's error
FileErrorUpdateSetsError(currentJob, fileName, error, now) ==
    [error |-> error.message,
     logs |-> Append(currentJob.logs,
                     LogEntry(now, "error",
                              <<"Erreur pour ">> \o Text(fileName) \o <<": ">>
                                  \o error.message))]

\* FileErrorUpdate, were a file's failure to mark the job failed
FileErrorUpdateMarksFailed(currentJob, fileName, error, now) ==
    [status |-> "failed",
     logs |-> Append(currentJob.logs,
                     LogEntry(now, "error",
                              <<"Erreur pour ">> \o Text(fileName) \o <<": ">>
                                  \o error.message))]

FileErrorUpdate(currentJob, fileName, error, now) ==
    [logs |-> Append(currentJob.logs,
                     LogEntry(now, "error",
                              <<"Erreur pour ">> \o Text(fileName) \o <<": ">>
                                  \o error.message))]

\* CompletedUpdate, were the final update to leave filesProcessed alone
CompletedUpdateKeepsCount(files, now) ==
    [status |-> "completed",
     progress |-> 100,
     logs |-> <<LogEntry(now, "info", <<"Upload termine avec succes">>)>>]

CompletedUpdate(files, now) ==
    [status |-> "completed",
     progress |-> 100,
     filesProcessed |-> Len(files),
     logs |-> <<LogEntry(now, "info", <<"Upload termine avec succes">>)>>]

\* FailedUpdate, were the catch block to record the error without the status
FailedUpdateKeepsStatus(error, now) ==
    [error |-> error.message,
     logs |-> <<LogEntry(now, "error", <<"Erreur fatale: ">> \o error.message)>>]

FailedUpdate(error, now) ==
    [status |-> "failed",
     error |-> error.message,
     logs |-> <<LogEntry(now, "error", <<"Erreur fatale: ">> \o error.message)>>]

\* DestPath, were the first segment kept instead of the last
DestPathTop(jobData, fileName) ==
    IF jobData.preserveStructure THEN fileName ELSE <<Head(fileName)>>

\* jobData.preserveStructure ? fileName : fileName.split('/').pop()
DestPath(jobData, fileName) ==
    IF jobData.preserveStructure THEN fileName ELSE <<Last(fileName)>>

\* jobData.commitMessage || `Upload de ${fileName}`
CommitMessage(jobData, fileName) ==
    IF jobData.commitMessage # <<>>
    THEN jobData.commitMessage
    ELSE <<"Upload de ">> \o Text(fileName)

----------------------------------------------------------------------------
(* State of a run *)

NoJobData ==
    [githubToken |-> "", repositoryUrl |-> <<>>, targetBranch |-> "",
     commitMessage |-> <<>>, preserveStructure |-> FALSE, overwriteFiles |-> FALSE]

\* the arguments (zipBuffer, jobData) and locals (i, owner, repo, path, sha,
\* currentJob, error) of processZipUpload and of the call it is waiting for
NoRun ==
    [zipBuffer |-> ZipBuffer(FALSE, 0),
     jobData |-> NoJobData,
     i |-> 0,
     owner |-> <<>>,
     repo |-> <<>>,
     path |-> <<>>,
     sha |-> "",
     currentJob |-> <<>>,
     error |-> Err(0, <<>>)]

\* the callers of the registry other than the handlers of a run
Callers == {"c1", "c2", "c3"}

\* the requests to POST /api/github/validate
Requests == {"r1", "r2"}

\* a request that has not arrived: its body, the remote calls made for it and
\* the response sent
NoRequest ==
    [pc |-> "none", body |-> [token |-> "", repositoryUrl |-> <<>>],
     calls |-> <<>>, response |-> <<>>]

Init ==
    /\ uploadJobs = <<>>
    /\ clock = 0      \* the clock stands still during a run
    /\ pc = [j \in JobIds |-> "none"]
    /\ run = [j \in JobIds |-> NoRun]
    /\ calls = [j \in JobIds |-> <<>>]
    /\ response = [j \in JobIds |-> <<>>]
    /\ polled = <<>>
    /\ callers = [c \in Callers |-> <<>>]
    /\ preflight = [r \in Requests |-> NoRequest]
    /\ refused = <<>>

----------------------------------------------------------------------------
(* POST /api/upload *)

\* the file part of a request: its declared type, whether its name ends in
\* ".zip", whether it is larger than limits.fileSize
UploadFiles ==
    [mimetype : {"application/zip", "text/plain"}, dotZip : BOOLEAN, oversized : BOOLEAN]

\* JSON.parse(req.body.jobData): <<>> if it throws, else the parsed value
ParsedJobData ==
    {<<>>} \cup {<<v>> : v \in [githubToken : {"", "tokenA"},
                                repositoryUrl : {UrlGood},
                                targetBranch : {"main"},
                                commitMessage : {<<>>},
                                preserveStructure : {TRUE},
                                overwriteFiles : {FALSE}]}

\* the requests to POST /api/upload: with or without a file part
UploadRequests ==
    [file : {<<>>} \cup {<<f>> : f \in UploadFiles}, jobData : ParsedJobData]

\* fileFilter of multer
FileFilter(file) == file.mimetype = "application/zip" \/ file.dotZip

\* insertUploadJobSchema.parse: githubToken is z.string().min(1)
SchemaAccepts(v) == v.githubToken # ""

\* what ends a request before storage.createUploadJob, <<>> if nothing does:
\* an error of multer (passed on, the handler does not run: status 0 stands
\* for no response of this handler), or a response of the handler
UploadRefusal(request) ==
    IF request.file # <<>> /\ ~FileFilter(request.file[1])
    THEN <<[stage |-> "multer", status |-> 0,
            message |-> <<"Seuls les fichiers ZIP sont acceptes">>]>>
    ELSE IF request.file # <<>> /\ request.file[1].oversized
    THEN <<[stage |-> "multer", status |-> 0, message |-> <<"File too large">>]>>
    ELSE IF request.file = <<>>
    THEN <<[stage |-> "handler", status |-> 400,
            message |-> <<"Aucun fichier ZIP fourni">>]>>
    ELSE IF request.jobData = <<>>
    THEN <<[stage |-> "handler", status |-> 500, message |-> <<"SyntaxError">>]>>
    ELSE IF ~SchemaAccepts(request.jobData[1])
    THEN <<[stage |-> "handler", status |-> 400, message |-> <<"Validation error">>]>>
    ELSE <<>>

\* Refuse, were the job stored before the submission is looked at
RefuseAfterCreate(request) ==
    /\ UploadRefusal(request) # <<>>
    /\ refused' = UploadRefusal(request)
    /\ \E id \in JobIds \ DOMAIN uploadJobs :
          uploadJobs' = CreateUploadJob(uploadJobs, NoJobData, id, clock)
    /\ UNCHANGED <<clock, pc, run, calls, response, polled, callers, preflight>>

\* a request that multer or the handler refuses
Refuse(request) ==
    /\ UploadRefusal(request) # <<>>
    /\ refused' = UploadRefusal(request)
    /\ UNCHANGED <<uploadJobs, clock, pc, run, calls, response, polled,
                   callers, preflight>>

\* the handler up to its await of storage.createUploadJob: the submission has
\* passed multer and insertUploadJobSchema; randomUUID() returns a fresh id
Submit(j, insertJob, zipBuffer) ==
    /\ pc[j] = "none"
    /\ j \notin DOMAIN uploadJobs
    /\ uploadJobs' = CreateUploadJob(uploadJobs, insertJob, j, clock)
    /\ run' = [run EXCEPT ![j] =
                  [NoRun EXCEPT !.zipBuffer = zipBuffer, !.jobData = insertJob]]
    /\ pc' = [pc EXCEPT ![j] = "created"]
    /\ UNCHANGED <<clock, calls, response, polled, callers, preflight, refused>>

\* SubmitResponse, were the handler to report the run's state
SubmitResponsePending(j) == [status |-> 202, success |-> FALSE, jobId |-> j]

\* res.json({ success: true, jobId: job.id, message })
SubmitResponse(j) == [status |-> 200, success |-> TRUE, jobId |-> j]

\* Start, were the response sent before the first update of the run is applied
StartRespondsFirst(j) ==
    /\ pc[j] = "created"
    /\ response' = [response EXCEPT ![j] =
                       Append(@, SubmitResponse(j))]
    /\ pc' = [pc EXCEPT ![j] = "load"]
    /\ UNCHANGED <<uploadJobs, clock, run, calls, polled, callers, preflight, refused>>

\* the rest of the handler: processZipUpload is called and runs to its first
\* await (the update to processing is applied inside that call), then the
\* response is sent
Start(j) ==
    /\ pc[j] = "created"
    /\ uploadJobs' = UpdateUploadJob(uploadJobs, j, ProcessingUpdate(clock), clock)
    /\ response' = [response EXCEPT ![j] =
                       Append(@, SubmitResponse(j))]
    /\ pc' = [pc EXCEPT ![j] = "load"]
    /\ UNCHANGED <<clock, run, calls, polled, callers, preflight, refused>>

----------------------------------------------------------------------------
(* processZipUpload *)

\* Fail, were processZipUpload to have no catch block: the run just ends
FailUnhandled(j, error) ==
    /\ pc' = [pc EXCEPT ![j] = "done"]
    /\ UNCHANGED uploadJobs

\* the catch block of processZipUpload
Fail(j, error) ==
    /\ uploadJobs' = UpdateUploadJob(uploadJobs, j, FailedUpdate(error, clock), clock)
    /\ pc' = [pc EXCEPT ![j] = "done"]

\* zip.loadAsync settles: the entry count is recorded, or the run fails
LoadArchive(j) ==
    /\ pc[j] = "load"
    /\ LET res == LoadOutcome(run[j].zipBuffer) IN
          IF res.ok
          THEN /\ uploadJobs' = UpdateUploadJob(uploadJobs, j,
                                    TotalUpdate(Files(run[j].zipBuffer), clock), clock)
               /\ pc' = [pc EXCEPT ![j] = "validate"]
          ELSE Fail(j, Err(res.status, res.message))
    /\ UNCHANGED <<clock, run, calls, response, polled, callers, preflight, refused>>

\* validateGitHubAccess up to its await: the URL is matched; without a match
\* the error thrown inside the try block is caught by its own catch block,
\* and what that rethrows fails the run; with one, repos.get is sent
ValidateStart(j) ==
    /\ pc[j] = "validate"
    /\ LET jobData == run[j].jobData
           match == UrlMatch(jobData.repositoryUrl)
       IN  IF match = <<>>
           THEN /\ Fail(j, ValidatorError(ErrInvalidUrl))
                /\ UNCHANGED calls
           ELSE /\ calls' = [calls EXCEPT ![j] =
                                Append(@, Call("repos.get", jobData.githubToken,
                                               match[1], ReplaceDotGit(match[2]),
                                               <<>>, "", <<>>, <<>>, ""))]
                /\ pc' = [pc EXCEPT ![j] = "access"]
                /\ UNCHANGED uploadJobs
    /\ UNCHANGED <<clock, run, response, polled, callers, preflight, refused>>

\* repos.get settles: validateGitHubAccess returns { owner, repo } or throws
AccessReturn(j) ==
    /\ pc[j] = "access"
    /\ \E res \in ReposGetOutcomes :
          /\ calls' = [calls EXCEPT ![j] = Settle(@, res)]
          /\ IF res.ok
             THEN /\ LET match == UrlMatch(run[j].jobData.repositoryUrl) IN
                         run' = [run EXCEPT ![j].owner = match[1],
                                            ![j].repo = ReplaceDotGit(match[2]),
                                            ![j].i = 0]
                  /\ pc' = [pc EXCEPT ![j] = "loop"]
                  /\ UNCHANGED uploadJobs
             ELSE /\ Fail(j, ValidatorError(Err(res.status, res.message)))
                  /\ UNCHANGED run
    /\ UNCHANGED <<clock, response, polled, callers, preflight, refused>>

\* the head of the for loop: the update before entry i and the start of its
\* content read, or after the last entry the final update
LoopHead(j) ==
    /\ pc[j] = "loop"
    /\ LET files == Files(run[j].zipBuffer) IN
          IF run[j].i < Len(files)
          THEN /\ uploadJobs' = UpdateUploadJob(uploadJobs, j,
                                    ProgressUpdate(files, run[j].i), clock)
               /\ calls' = [calls EXCEPT ![j] =
                               Append(@, Call("file.async", "", <<>>, <<>>,
                                              files[run[j].i + 1], "", <<>>, <<>>, ""))]
               /\ pc' = [pc EXCEPT ![j] = "read"]
          ELSE /\ uploadJobs' = UpdateUploadJob(uploadJobs, j,
                                    CompletedUpdate(files, clock), clock)
               /\ pc' = [pc EXCEPT ![j] = "done"]
               /\ UNCHANGED calls
    /\ UNCHANGED <<clock, run, response, polled, callers, preflight, refused>>

\* the per-file catch block up to its await: the job record is read
CatchFile(j, error) ==
    /\ run' = [run EXCEPT ![j].error = error,
                          ![j].currentJob = GetUploadJob(uploadJobs, j)]
    /\ pc' = [pc EXCEPT ![j] = "logerror"]

\* the request uploadFileToGitHub sends to createOrUpdateFileContents
PutCall(jobData, owner, repo, fileName, path, sha) ==
    Call("createOrUpdateFileContents", jobData.githubToken, owner, repo, path,
         jobData.targetBranch, CommitMessage(jobData, fileName),
         <<"base64 of ">> \o Text(fileName), sha)

\* the request uploadFileToGitHub sends to getContent
GetContentCall(jobData, owner, repo, path) ==
    Call("getContent", jobData.githubToken, owner, repo, path,
         jobData.targetBranch, <<>>, <<>>, "")

\* ReadReturn, were the lookup sent whatever overwrite says
ReadReturnAlwaysLooksUp(j) ==
    /\ pc[j] = "read"
    /\ \E res \in ReadOutcomes(run[j].i) :
          LET jobData == run[j].jobData
              fileName == Files(run[j].zipBuffer)[run[j].i + 1]
              path == DestPath(jobData, fileName)
              settled == Settle(calls[j], res)
          IN  IF ~res.ok
              THEN /\ CatchFile(j, Err(res.status, res.message))
                   /\ calls' = [calls EXCEPT ![j] = settled]
              ELSE /\ calls' = [calls EXCEPT ![j] =
                                   Append(settled, GetContentCall(jobData, run[j].owner,
                                                                  run[j].repo, path))]
                   /\ run' = [run EXCEPT ![j].path = path, ![j].sha = ""]
                   /\ pc' = [pc EXCEPT ![j] = "lookup"]
    /\ UNCHANGED <<uploadJobs, clock, response, polled, callers, preflight, refused>>

\* file.async("base64") settles: uploadFileToGitHub is called and sends its
\* first request (the lookup if overwrite, else the write), or the read failed
ReadReturn(j) ==
    /\ pc[j] = "read"
    /\ \E res \in ReadOutcomes(run[j].i) :
          LET jobData == run[j].jobData
              fileName == Files(run[j].zipBuffer)[run[j].i + 1]
              path == DestPath(jobData, fileName)
              settled == Settle(calls[j], res)
          IN  IF ~res.ok
              THEN /\ CatchFile(j, Err(res.status, res.message))
                   /\ calls' = [calls EXCEPT ![j] = settled]
              ELSE IF jobData.overwriteFiles
              THEN /\ calls' = [calls EXCEPT ![j] =
                                   Append(settled, GetContentCall(jobData, run[j].owner,
                                                                  run[j].repo, path))]
                   /\ run' = [run EXCEPT ![j].path = path, ![j].sha = ""]
                   /\ pc' = [pc EXCEPT ![j] = "lookup"]
              ELSE /\ calls' = [calls EXCEPT ![j] =
                                   Append(settled, PutCall(jobData, run[j].owner,
                                                           run[j].repo, fileName, path, ""))]
                   /\ run' = [run EXCEPT ![j].path = path, ![j].sha = ""]
                   /\ pc' = [pc EXCEPT ![j] = "write"]
    /\ UNCHANGED <<uploadJobs, clock, response, polled, callers, preflight, refused>>

\* LookupReturn, were every failure of the lookup swallowed like a not-found
LookupReturnSwallowsAll(j) ==
    /\ pc[j] = "lookup"
    /\ \E res \in GetContentOutcomes(run[j].i) :
          LET jobData == run[j].jobData
              fileName == Files(run[j].zipBuffer)[run[j].i + 1]
              settled == Settle(calls[j], res)
          IN  /\ calls' = [calls EXCEPT ![j] =
                              Append(settled, PutCall(jobData, run[j].owner,
                                                      run[j].repo, fileName,
                                                      run[j].path, LookupSha(res)))]
              /\ run' = [run EXCEPT ![j].sha = LookupSha(res)]
              /\ pc' = [pc EXCEPT ![j] = "write"]
    /\ UNCHANGED <<uploadJobs, clock, response, polled, callers, preflight, refused>>

\* getContent settles: a 404 is swallowed, another failure leaves
\* uploadFileToGitHub as an upload error, otherwise the write is sent
LookupReturn(j) ==
    /\ pc[j] = "lookup"
    /\ \E res \in GetContentOutcomes(run[j].i) :
          LET jobData == run[j].jobData
              fileName == Files(run[j].zipBuffer)[run[j].i + 1]
              settled == Settle(calls[j], res)
          IN  IF ~res.ok /\ res.status # 404
              THEN /\ CatchFile(j, UploadError(run[j].path, Err(res.status, res.message)))
                   /\ calls' = [calls EXCEPT ![j] = settled]
              ELSE /\ calls' = [calls EXCEPT ![j] =
                                   Append(settled, PutCall(jobData, run[j].owner,
                                                           run[j].repo, fileName,
                                                           run[j].path, LookupSha(res)))]
                   /\ run' = [run EXCEPT ![j].sha = LookupSha(res)]
                   /\ pc' = [pc EXCEPT ![j] = "write"]
    /\ UNCHANGED <<uploadJobs, clock, response, polled, callers, preflight, refused>>

\* createOrUpdateFileContents settles: the job record is read for the log
\* entry of the file
WriteReturn(j) ==
    /\ pc[j] = "write"
    /\ \E res \in PutOutcomes(run[j].i) :
          /\ calls' = [calls EXCEPT ![j] = Settle(@, res)]
          /\ IF res.ok
             THEN /\ run' = [run EXCEPT ![j].currentJob = GetUploadJob(uploadJobs, j)]
                  /\ pc' = [pc EXCEPT ![j] = "loginfo"]
             ELSE CatchFile(j, UploadError(run[j].path, Err(res.status, res.message)))
    /\ UNCHANGED <<uploadJobs, clock, response, polled, callers, preflight, refused>>

\* after the await of getUploadJob: the log entry of the file is stored
AppendLog(j) ==
    /\ pc[j] \in {"loginfo", "logerror"}
    /\ LET fileName == Files(run[j].zipBuffer)[run[j].i + 1]
           currentJob == run[j].currentJob
       IN  IF currentJob = <<>>
           THEN UNCHANGED uploadJobs
           ELSE uploadJobs' = UpdateUploadJob(uploadJobs, j,
                    IF pc[j] = "loginfo"
                    THEN UploadedUpdate(currentJob[1], fileName, clock)
                    ELSE FileErrorUpdate(currentJob[1], fileName, run[j].error, clock),
                    clock)
    /\ run' = [run EXCEPT ![j].i = @ + 1]
    /\ pc' = [pc EXCEPT ![j] = "loop"]
    /\ UNCHANGED <<clock, calls, response, polled, callers, preflight, refused>>

----------------------------------------------------------------------------
(* GET /api/upload/:jobId *)

\* the response of the handler for what getUploadJob returned
QueryResponse(found) ==
    IF found = <<>>
    THEN [status |-> 404, success |-> FALSE, job |-> <<>>]
    ELSE [status |-> 200, success |-> TRUE, job |-> found]

\* Query, were a read to stamp the record it returns
QueryStamps(id) ==
    /\ polled' = <<QueryResponse(GetUploadJob(uploadJobs, id))>>
    /\ uploadJobs' = UpdateUploadJob(uploadJobs, id, [currentFile |-> <<"read">>], clock)
    /\ UNCHANGED <<clock, pc, run, calls, response, callers, preflight, refused>>

Query(id) ==
    /\ polled' = <<QueryResponse(GetUploadJob(uploadJobs, id))>>
    /\ UNCHANGED <<uploadJobs, clock, pc, run, calls, response,
                   callers, preflight, refused>>

----------------------------------------------------------------------------
(* Callers of MemStorage outside a run *)

\* new Date() reads a later time
Tick ==
    /\ clock < MaxClock
    /\ clock' = clock + 1
    /\ UNCHANGED <<uploadJobs, pc, run, calls, response, polled,
                   callers, preflight, refused>>

\* the submitted fields the callers create jobs with
RegistryInserts ==
    {insertJob \in InsertUploadJobs :
        /\ insertJob.githubToken = "tokenA"
        /\ insertJob.repositoryUrl = UrlGood
        /\ insertJob.commitMessage = <<>>
        /\ insertJob.preserveStructure}

\* the Partial<UploadJob> values the callers update jobs with
Fragments ==
    {[status |-> "processing"],
     [progress |-> 50],
     [filesProcessed |-> 1, totalFiles |-> 2],
     [status |-> "failed", error |-> <<"boom">>],
     [progress |-> 25, updatedAt |-> 0]}

\* storage.createUploadJob(insertJob), called by c: randomUUID() gives an id
\* the Map does not hold
CreateCall(c, insertJob) ==
    /\ callers[c] = <<>>
    /\ \E id \in JobIds \ DOMAIN uploadJobs :
          /\ uploadJobs' = CreateUploadJob(uploadJobs, insertJob, id, clock)
          /\ callers' = [callers EXCEPT ![c] =
                            <<[op |-> "createUploadJob", id |-> id, arg |-> insertJob,
                               result |-> <<uploadJobs'[id]>>]>>]
    /\ UNCHANGED <<clock, pc, run, calls, response, polled, preflight, refused>>

\* storage.updateUploadJob(id, updates), called by c
UpdateCall(c, id, updates) ==
    /\ callers[c] = <<>>
    /\ uploadJobs' = UpdateUploadJob(uploadJobs, id, updates, clock)
    /\ callers' = [callers EXCEPT ![c] =
                      <<[op |-> "updateUploadJob", id |-> id, arg |-> updates,
                         result |-> IF id \in DOMAIN uploadJobs
                                    THEN <<uploadJobs'[id]>>
                                    ELSE <<>>]>>]
    /\ UNCHANGED <<clock, pc, run, calls, response, polled, preflight, refused>>

----------------------------------------------------------------------------
(* POST /api/github/validate *)

\* repository URLs whose last segment has ".git" at its end, nowhere, in the
\* middle, or both in the middle and at its end
UrlPlain == << <<"https:">>, <<>>, <<"github.com">>, <<"octo">>, <<"repo">> >>
UrlMidGit ==
    << <<"https:">>, <<>>, <<"github.com">>, <<"octo">>, <<"my", ".git", "hub.io">> >>
UrlMidAndEndGit ==
    << <<"https:">>, <<>>, <<"github.com">>, <<"octo">>,
       <<"my", ".git", "hub.io", ".git">> >>

ValidateUrls == {UrlGood, UrlNoRepo, UrlPlain, UrlMidGit, UrlMidAndEndGit}

\* the bodies of the requests: githubValidationSchema rejects the empty token
ValidationBodies == [token : {"", "tokenA"}, repositoryUrl : ValidateUrls]

\* res.status(400).json({ success: false, message })
PreflightRefused(message) ==
    [status |-> 400, success |-> FALSE, message |-> message, repository |-> <<>>]

\* res.json({ success: true, message, repository: { owner, repo } })
PreflightAccepted(owner, repo) ==
    [status |-> 200, success |-> TRUE,
     message |-> <<"Connexion GitHub validee avec succes">>,
     repository |-> <<[owner |-> owner, repo |-> repo]>>]

\* the handler up to the first await: the body is parsed and
\* validateGitHubAccess matches the URL, then throws or calls repos.get
PreflightStart(r, body) ==
    /\ preflight[r].pc = "none"
    /\ LET match == UrlMatch(body.repositoryUrl) IN
          preflight' = [preflight EXCEPT ![r] =
              IF body.token = ""
              THEN [pc |-> "done", body |-> body, calls |-> <<>>,
                    response |-> <<PreflightRefused(<<"Validation error">>)>>]
              ELSE IF match = <<>>
              THEN [pc |-> "done", body |-> body, calls |-> <<>>,
                    response |->
                        <<PreflightRefused(ValidatorError(ErrInvalidUrl).message)>>]
              ELSE [pc |-> "access", body |-> body,
                    calls |-> <<Call("repos.get", body.token, match[1],
                                     ReplaceDotGit(match[2]), <<>>, "", <<>>, <<>>, "")>>,
                    response |-> <<>>]]
    /\ UNCHANGED <<uploadJobs, clock, pc, run, calls, response, polled, callers, refused>>

\* repos.get settles: validateGitHubAccess returns or throws, the handler responds
PreflightReturn(r) ==
    /\ preflight[r].pc = "access"
    /\ \E res \in ReposGetOutcomes :
          LET match == UrlMatch(preflight[r].body.repositoryUrl) IN
          preflight' = [preflight EXCEPT
              ![r].pc = "done",
              ![r].calls = Settle(@, res),
              ![r].response =
                  IF res.ok
                  THEN <<PreflightAccepted(match[1], ReplaceDotGit(match[2]))>>
                  ELSE <<PreflightRefused(
                            ValidatorError(Err(res.status, res.message)).message)>>]
    /\ UNCHANGED <<uploadJobs, clock, pc, run, calls, response, polled, callers, refused>>

----------------------------------------------------------------------------
(* Specifications *)

\* the archives a submission can carry: corrupt bytes, or a small archive
SmallZips == {ZipBuffer(c, n) : c \in BOOLEAN, n \in 0..MaxFiles}

\* a small archive, or the large one
LargeZips == {ZipBuffer(FALSE, n) : n \in (0..MaxFiles) \cup {LargeN}}

\* the submissions of the runs that include the large archive: one token, the
\* default commit message, the structure preserved; the large archive is
\* uploaded without overwrite
LargeSubmissions ==
    {s \in InsertUploadJobs \X LargeZips :
        /\ s[1].githubToken = "tokenA"
        /\ s[1].commitMessage = <<>>
        /\ s[1].preserveStructure
        /\ (s[2].n > MaxFiles => ~s[1].overwriteFiles)}

Step(j) ==
    \/ Start(j)
    \/ LoadArchive(j)
    \/ ValidateStart(j)
    \/ AccessReturn(j)
    \/ LoopHead(j)
    \/ ReadReturn(j)
    \/ LookupReturn(j)
    \/ WriteReturn(j)
    \/ AppendLog(j)

\* one job at a time, every submission, small archives, and a client polling
Next ==
    \/ \E insertJob \in InsertUploadJobs, zipBuffer \in SmallZips :
          Submit("job1", insertJob, zipBuffer)
    \/ Step("job1")
    \/ \E id \in JobIds : Query(id)

Spec == Init /\ [][Next]_vars

\* one job on archives up to the large one
NextLarge ==
    \/ \E s \in LargeSubmissions : Submit("job1", s[1], s[2])
    \/ Step("job1")

SpecLarge == Init /\ [][NextLarge]_vars

\* one job, without the polling client; every continuation of a run that can
\* run does run (the event loop runs the continuation of every settled await,
\* and every awaited call settles)
NextRun ==
    \/ \E insertJob \in InsertUploadJobs, zipBuffer \in SmallZips :
          Submit("job1", insertJob, zipBuffer)
    \/ Step("job1")

SpecLive == Init /\ [][NextRun]_vars /\ WF_vars(Step("job1"))

\* the submissions of one token and the default commit message, on small
\* archives, decodable or not
RunSubmissions ==
    {s \in InsertUploadJobs \X SmallZips :
        s[1].githubToken = "tokenA" /\ s[1].commitMessage = <<>>}

\* one job and nothing else
NextOne ==
    \/ \E s \in RunSubmissions : Submit("job1", s[1], s[2])
    \/ Step("job1")

SpecRun == Init /\ [][NextOne]_vars

\* one job while time passes: new Date() reads later times as the run goes on
NextClock ==
    \/ \E s \in RunSubmissions : Submit("job1", s[1], s[2])
    \/ Step("job1")
    \/ Tick

SpecClock == Init /\ [][NextClock]_vars

\* the submissions of one token, the default commit message and the
\* structure preserved, on small archives
FewSubmissions == {s \in LargeSubmissions : s[2].n <= MaxFiles}

\* requests to POST /api/upload, refused or accepted, while a job runs
NextSubmit ==
    \/ \E request \in UploadRequests : Refuse(request)
    \/ \E s \in FewSubmissions : Submit("job1", s[1], s[2])
    \/ Step("job1")

SpecSubmit == Init /\ [][NextSubmit]_vars

\* the bodies of the pre-flight requests sent while a job runs
FewBodies ==
    {b \in ValidationBodies : b.token # "" /\ b.repositoryUrl \in {UrlGood, UrlNoRepo}}

\* pre-flight requests and polls while a job runs
NextMixed ==
    \/ \E s \in FewSubmissions : Submit("job1", s[1], s[2])
    \/ Step("job1")
    \/ \E id \in JobIds : Query(id)
    \/ \E body \in FewBodies : PreflightStart("r1", body)
    \/ PreflightReturn("r1")

SpecMixed == Init /\ [][NextMixed]_vars

\* the submissions of the jobs that run side by side: a matching URL, and
\* overwrite only on archives of at most one file
MultiSubmissions ==
    {s \in FewSubmissions :
        /\ s[1].repositoryUrl = UrlGood
        /\ (s[2].n > 1 => ~s[1].overwriteFiles)}

\* two jobs whose runs interleave in every way
NextMulti ==
    \/ \E j \in JobIds, s \in MultiSubmissions : Submit(j, s[1], s[2])
    \/ \E j \in JobIds : Step(j)

SpecMulti == Init /\ [][NextMulti]_vars

\* the registry under callers that create and update jobs while time passes
NextRegistry ==
    \/ \E c \in Callers, insertJob \in RegistryInserts : CreateCall(c, insertJob)
    \/ \E c \in Callers, id \in JobIds, updates \in Fragments :
          UpdateCall(c, id, updates)
    \/ Tick

SpecRegistry == Init /\ [][NextRegistry]_vars

\* the requests to POST /api/github/validate, handled concurrently
NextValidate ==
    \/ \E r \in Requests, body \in ValidationBodies : PreflightStart(r, body)
    \/ \E r \in Requests : PreflightReturn(r)

SpecValidate == Init /\ [][NextValidate]_vars

----------------------------------------------------------------------------
(* Properties *)

\* the calls of a run to op that were rejected
RejectedCalls(j, op) ==
    {k \in 1..Len(calls[j]) :
        calls[j][k].op = op /\ calls[j][k].settled = "rejected"}

\* the calls of a run to op
CallsTo(j, op) == {k \in 1..Len(calls[j]) : calls[j][k].op = op}

HasErrorEntry(logs) == \E k \in 1..Len(logs) : logs[k].level = "error"

\* the steps the status of a job may take
StatusOrder ==
    {<<"pending", "processing">>,
     <<"processing", "completed">>,
     <<"processing", "failed">>}

\* C1: a job starts in pending and its status only moves pending -> processing
\* -> completed | failed; completed and failed are never left.
C1_StatusMovesForward ==
    [][\A j \in JobIds :
          /\ (j \in DOMAIN uploadJobs =>
                /\ j \in DOMAIN uploadJobs'
                /\ \/ uploadJobs'[j].status = uploadJobs[j].status
                   \/ <<uploadJobs[j].status, uploadJobs'[j].status>> \in StatusOrder)
          /\ (j \notin DOMAIN uploadJobs /\ j \in DOMAIN uploadJobs' =>
                uploadJobs'[j].status = "pending")]_vars

\* a run that went through the per-file loop and ended
C1_Witness ==
    \E j \in DOMAIN uploadJobs :
        /\ uploadJobs[j].status = "completed"
        /\ RejectedCalls(j, "createOrUpdateFileContents") # {}

\* C2: the log a job had before a step is a prefix of the log it has after it
\* (entries are only appended, none removed or replaced).
C2_LogOnlyAppended ==
    [][\A j \in DOMAIN uploadJobs :
          j \in DOMAIN uploadJobs' =>
              IsPrefix(uploadJobs[j].logs, uploadJobs'[j].logs)]_vars

\* C3: the length of a job's log never decreases from one state to the next.
C3_LogLengthNonDecreasing ==
    [][\A j \in DOMAIN uploadJobs :
          j \in DOMAIN uploadJobs' =>
              Len(uploadJobs[j].logs) <= Len(uploadJobs'[j].logs)]_vars

\* exactly one entry of the run failed, and it failed in its remote write
OneWriteFailed(j) ==
    /\ Cardinality(RejectedCalls(j, "createOrUpdateFileContents")) = 1
    /\ RejectedCalls(j, "file.async") = {}
    /\ \A k \in RejectedCalls(j, "getContent") : calls[j][k].status = 404

\* C4: a run in which exactly one entry failed its remote write ends
\* completed, with filesProcessed = N and an error entry in its final log.
C4_OneFailureCompletesWithErrorEntry ==
    \A j \in DOMAIN uploadJobs :
        (pc[j] = "done" /\ OneWriteFailed(j)) =>
            /\ uploadJobs[j].status = "completed"
            /\ uploadJobs[j].filesProcessed = Len(Files(run[j].zipBuffer))
            /\ HasErrorEntry(uploadJobs[j].logs)

\* C5: the job record in a response of GET /api/upload/:jobId does not hold
\* the submitted credential.
C5_CredentialNotEchoed ==
    \A r \in 1..Len(polled) :
        \A k \in 1..Len(polled[r].job) :
            "githubToken" \notin DOMAIN polled[r].job[k]

\* C6: in every state of every job, progress = 100 exactly if the status is
\* completed.
C6_FullProgressIffCompleted ==
    \A j \in DOMAIN uploadJobs :
        (uploadJobs[j].progress = 100) <=> (uploadJobs[j].status = "completed")

\* C7: in every state of every job, the status is completed exactly if
\* progress = 100 and filesProcessed = totalFiles.
C7_CompletedIffFullAndAllProcessed ==
    \A j \in DOMAIN uploadJobs :
        (uploadJobs[j].status = "completed") <=>
            (uploadJobs[j].progress = 100
                /\ uploadJobs[j].filesProcessed = uploadJobs[j].totalFiles)

\* the last entry of the large archive is being handled: progress has been
\* rounded up to 100 and the job is not completed
C7_Witness ==
    \E j \in DOMAIN uploadJobs :
        /\ uploadJobs[j].status = "processing"
        /\ uploadJobs[j].progress = 100
        /\ uploadJobs[j].filesProcessed + 1 = uploadJobs[j].totalFiles

\* C8: in every state of every job, filesProcessed <= totalFiles.
C8_ProcessedAtMostTotal ==
    \A j \in DOMAIN uploadJobs :
        uploadJobs[j].filesProcessed <= uploadJobs[j].totalFiles

\* a later entry of an archive is being handled
C8_Witness ==
    \E j \in DOMAIN uploadJobs :
        /\ uploadJobs[j].status = "processing"
        /\ uploadJobs[j].filesProcessed >= 1

\* C9: a run on a corrupt archive goes from processing to failed with the
\* decoding error as its terminal error; it makes no remote call (no
\* validator call, no lookup, no write) and never records totalFiles.
C9_CorruptArchiveFailsWithoutCalls ==
    \A j \in DOMAIN uploadJobs :
        run[j].zipBuffer.corrupt =>
            /\ pc[j] \in {"created", "load", "done"}
            /\ calls[j] = <<>>
            /\ uploadJobs[j].totalFiles = 0
            /\ pc[j] = "created" => uploadJobs[j].status = "pending"
            /\ pc[j] = "load" => uploadJobs[j].status = "processing"
            /\ pc[j] = "done" =>
                  /\ uploadJobs[j].status = "failed"
                  /\ "error" \in DOMAIN uploadJobs[j]
                  /\ uploadJobs[j].error = <<"Can't find end of central directory">>

\* the run on a corrupt archive of two files has ended
C9_Witness ==
    \E j \in DOMAIN uploadJobs :
        /\ run[j].zipBuffer.corrupt
        /\ run[j].zipBuffer.n = 2
        /\ pc[j] = "done"

\* the validator of the run failed: the URL did not match, or repos.get was
\* rejected
ValidatorFailed(j) ==
    \/ /\ pc[j] \notin {"none", "created", "load", "validate"}
       /\ ~run[j].zipBuffer.corrupt
       /\ UrlMatch(run[j].jobData.repositoryUrl) = <<>>
    \/ RejectedCalls(j, "repos.get") # {}

\* the error validateGitHubAccess threw in the run
ValidatorThrown(j) ==
    IF UrlMatch(run[j].jobData.repositoryUrl) = <<>>
    THEN ValidatorError(ErrInvalidUrl)
    ELSE LET call == calls[j][CHOOSE k \in RejectedCalls(j, "repos.get") : TRUE]
         IN  ValidatorError(Err(call.status, call.error))

\* C10: when the validator fails, for whatever reason, the job ends failed
\* with the validator's error, and the run makes no lookup and no write.
C10_ValidatorFailureFailsWithoutWrites ==
    \A j \in DOMAIN uploadJobs :
        ValidatorFailed(j) =>
            /\ pc[j] = "done"
            /\ uploadJobs[j].status = "failed"
            /\ "error" \in DOMAIN uploadJobs[j]
            /\ uploadJobs[j].error = ValidatorThrown(j).message
            /\ CallsTo(j, "getContent") = {}
            /\ CallsTo(j, "createOrUpdateFileContents") = {}
            /\ CallsTo(j, "file.async") = {}

\* repos.get was rejected in a run on an archive with entries
C10_Witness ==
    \E j \in DOMAIN uploadJobs :
        /\ RejectedCalls(j, "repos.get") # {}
        /\ uploadJobs[j].totalFiles >= 1

\* the number of entries of the archive that are not directories
FileCount(zipBuffer) ==
    LET entries == ZipEntries(zipBuffer.n) IN
    Cardinality({k \in 1..Len(entries) : ~entries[k].dir})

\* no call of the run failed (a lookup answering not-found is no failure)
NoCallFailed(j) ==
    \A k \in 1..Len(calls[j]) :
        calls[j][k].settled = "rejected" =>
            (calls[j][k].op = "getContent" /\ calls[j][k].status = 404)

\* C11: a run on a valid archive with N files (directories not counted) whose
\* validation and remote calls all succeed makes exactly N write attempts,
\* records totalFiles = N and ends completed.
C11_AllSucceedGivesNWrites ==
    \A j \in DOMAIN uploadJobs :
        (pc[j] = "done" /\ ~run[j].zipBuffer.corrupt
            /\ CallsTo(j, "repos.get") # {} /\ NoCallFailed(j)) =>
            /\ Cardinality(CallsTo(j, "createOrUpdateFileContents"))
                  = FileCount(run[j].zipBuffer)
            /\ uploadJobs[j].totalFiles = FileCount(run[j].zipBuffer)
            /\ uploadJobs[j].status = "completed"

\* a run on the archive of two files and one folder ended without a failure
C11_Witness ==
    \E j \in DOMAIN uploadJobs :
        /\ pc[j] = "done"
        /\ run[j].zipBuffer = ZipBuffer(FALSE, 2)
        /\ CallsTo(j, "repos.get") # {}
        /\ NoCallFailed(j)

\* C12: with overwrite, every write follows exactly one lookup of the same
\* path on the same branch and carries the sha that lookup found, or none
\* after a not-found; every lookup that found the file or answered not-found
\* is followed by exactly one write.
C12_OverwriteLooksUpThenWrites ==
    \A j \in DOMAIN uploadJobs :
        run[j].jobData.overwriteFiles =>
            \A k \in 1..Len(calls[j]) :
                /\ calls[j][k].op = "createOrUpdateFileContents" =>
                      /\ k > 1
                      /\ calls[j][k - 1].op = "getContent"
                      /\ calls[j][k - 1].path = calls[j][k].path
                      /\ calls[j][k - 1].branch = calls[j][k].branch
                      /\ calls[j][k - 1].settled = "resolved" =>
                            calls[j][k].sha = calls[j][k - 1].data
                      /\ calls[j][k - 1].settled = "rejected" =>
                            (calls[j][k - 1].status = 404 /\ calls[j][k].sha = "")
                /\ calls[j][k].op = "getContent" =>
                      /\ calls[j][k - 1].op = "file.async"
                      /\ (calls[j][k].settled = "resolved" \/ calls[j][k].status = 404) =>
                            /\ k < Len(calls[j])
                            /\ calls[j][k + 1].op = "createOrUpdateFileContents"
                            /\ (k + 1 < Len(calls[j]) =>
                                   calls[j][k + 2].op = "file.async")

\* one write of a run carries the sha its lookup found, another follows a
\* not-found and carries none
C12_Witness ==
    \E j \in DOMAIN uploadJobs :
        \E k, l \in 2..Len(calls[j]) :
            /\ calls[j][k].op = "createOrUpdateFileContents"
            /\ calls[j][k].sha = "sha1"
            /\ calls[j][k - 1].data = "sha1"
            /\ calls[j][l].op = "createOrUpdateFileContents"
            /\ calls[j][l].sha = ""
            /\ calls[j][l - 1].status = 404

\* C13: every run, once its job is created, reaches a terminal status.
C13_RunTerminates ==
    \A j \in JobIds :
        (j \in DOMAIN uploadJobs) ~>
            (j \in DOMAIN uploadJobs /\ uploadJobs[j].status \in {"completed", "failed"})

\* a run with a failed entry has ended
C13_Witness ==
    \E j \in DOMAIN uploadJobs :
        /\ pc[j] = "done"
        /\ uploadJobs[j].status \in {"completed", "failed"}
        /\ RejectedCalls(j, "file.async") # {}

\* C14: a read of a job, taken at any point of its run, returns the whole
\* record the registry holds at that step, which is the result of the updates
\* the run has applied so far, in order; no read shows totalFiles = 0 with
\* filesProcessed # 0.
C14_ReadsSeeWholeUpdates ==
    /\ [][polled' # polled =>
            \E id \in JobIds :
                polled' = <<QueryResponse(IF id \in DOMAIN uploadJobs
                                          THEN <<uploadJobs[id]>>
                                          ELSE <<>>)>>]_vars
    /\ []((polled # <<>> /\ polled[1].status = 200) =>
            ~(polled[1].job[1].totalFiles = 0 /\ polled[1].job[1].filesProcessed # 0))

\* a read taken while entries were being processed, after which the run has
\* moved on
C14_Witness ==
    /\ polled # <<>>
    /\ polled[1].status = 200
    /\ polled[1].job[1].status = "processing"
    /\ polled[1].job[1].filesProcessed > 0
    /\ uploadJobs[polled[1].job[1].id] # polled[1].job[1]

\* the fields two partial records both name
Shared(a, b) == (DOMAIN a \cap DOMAIN b) \ {"updatedAt"}

\* C15: when two callers have updated the same stored job with disjoint sets
\* of fields, in either order, and no one else has updated it, the stored
\* record carries the values of both.
C15_DisjointUpdatesBothKept ==
    \A c1, c2 \in Callers :
        (/\ c1 # c2
         /\ callers[c1] # <<>> /\ callers[c2] # <<>>
         /\ callers[c1][1].op = "updateUploadJob"
         /\ callers[c2][1].op = "updateUploadJob"
         /\ callers[c1][1].id = callers[c2][1].id
         /\ callers[c1][1].result # <<>> /\ callers[c2][1].result # <<>>
         /\ Shared(callers[c1][1].arg, callers[c2][1].arg) = {}
         /\ \A c3 \in Callers \ {c1, c2} :
               callers[c3] = <<>> \/ callers[c3][1].op = "createUploadJob") =>
            \A c \in {c1, c2} :
                \A f \in DOMAIN callers[c][1].arg \ {"updatedAt"} :
                    uploadJobs[callers[c][1].id][f] = callers[c][1].arg[f]

\* one caller has set the status of a job and another its counters
C15_Witness ==
    \E c1, c2 \in Callers :
        /\ callers[c1] # <<>> /\ callers[c2] # <<>>
        /\ callers[c1][1].op = "updateUploadJob"
        /\ callers[c2][1].op = "updateUploadJob"
        /\ callers[c1][1].id = callers[c2][1].id
        /\ callers[c1][1].result # <<>> /\ callers[c2][1].result # <<>>
        /\ callers[c1][1].arg = [status |-> "processing"]
        /\ callers[c2][1].arg = [filesProcessed |-> 1, totalFiles |-> 2]

\* caller c returns from a call of op in this step
Returns(c, op) ==
    /\ callers[c] = <<>>
    /\ callers'[c] # <<>>
    /\ callers'[c][1].op = op

\* C16: createUploadJob returns and stores a record under an id the registry
\* did not hold, with status pending, progress 0, both counters 0, a log of
\* one info entry, createdAt = updatedAt and the submitted fields as given;
\* every job stored before is unchanged.
C16_CreateStoresFreshPendingJob ==
    [][\A c \in Callers :
        Returns(c, "createUploadJob") =>
            LET call == callers'[c][1]
                job == call.result[1]
            IN  /\ job.id \notin DOMAIN uploadJobs
                /\ DOMAIN uploadJobs' = DOMAIN uploadJobs \cup {job.id}
                /\ uploadJobs'[job.id] = job
                /\ job.status = "pending"
                /\ job.progress = 0
                /\ job.filesProcessed = 0
                /\ job.totalFiles = 0
                /\ Len(job.logs) = 1
                /\ job.logs[1].level = "info"
                /\ job.createdAt = job.updatedAt
                /\ \A f \in DOMAIN call.arg : job[f] = call.arg[f]
                /\ \A other \in DOMAIN uploadJobs :
                      uploadJobs'[other] = uploadJobs[other]]_vars

\* a second job was created, later than the first and after the first was
\* updated
C16_Witness ==
    \E c1, c2 \in Callers :
        /\ callers[c1] # <<>> /\ callers[c2] # <<>>
        /\ callers[c1][1].op = "createUploadJob"
        /\ callers[c2][1].op = "createUploadJob"
        /\ callers[c2][1].result[1].createdAt > callers[c1][1].result[1].createdAt
        /\ uploadJobs[callers[c1][1].id] # callers[c1][1].result[1]

\* what C17 asks of a call of updateUploadJob, the fields in named taking the
\* given values
UpdateMerges(c, named) ==
    LET call == callers'[c][1]
        id == call.id
    IN  IF id \in DOMAIN uploadJobs
        THEN /\ call.result = <<uploadJobs'[id]>>
             /\ DOMAIN uploadJobs' = DOMAIN uploadJobs
             /\ \A f \in named : uploadJobs'[id][f] = call.arg[f]
             /\ \A f \in DOMAIN uploadJobs[id] \ (DOMAIN call.arg \cup {"updatedAt"}) :
                   uploadJobs'[id][f] = uploadJobs[id][f]
             /\ uploadJobs'[id].updatedAt = clock
             /\ \A other \in DOMAIN uploadJobs \ {id} :
                   uploadJobs'[other] = uploadJobs[other]
        ELSE /\ call.result = <<>>
             /\ uploadJobs' = uploadJobs

Answered == {r \in Requests : preflight[r].pc = "done" /\ preflight[r].body.token # ""}

\* C18: the validator gives each failure its own outcome: an unmatched URL
\* its own message, not one of the remote-error form, and no remote call; a
\* 401 the invalid-credential message; a 404 the not-found message; any other
\* remote failure the remote-error message with the underlying message.
C18_EachFailureOwnOutcome ==
    \A r \in Answered :
        LET message == preflight[r].response[1].message
            history == preflight[r].calls
        IN  /\ UrlMatch(preflight[r].body.repositoryUrl) = <<>> =>
                  /\ history = <<>>
                  /\ ~preflight[r].response[1].success
                  /\ Head(message) # "Erreur GitHub: "
            /\ (history # <<>> /\ history[1].settled = "rejected") =>
                  /\ ~preflight[r].response[1].success
                  /\ history[1].status = 401 =>
                        message = <<"Token GitHub invalide ou expire">>
                  /\ history[1].status = 404 =>
                        message = <<"Depot non trouve ou pas d'acces">>
                  /\ history[1].status \notin {401, 404} =>
                        message = <<"Erreur GitHub: ">> \o history[1].error

\* the repository segment with a ".git" at its end removed
StripTrailingDotGit(repo) ==
    IF repo # <<>> /\ Last(repo) = ".git"
    THEN SubSeq(repo, 1, Len(repo) - 1)
    ELSE repo

\* C19: on success the validator returns the owner and repository segments
\* of the URL, the repository name being the segment with a trailing ".git"
\* removed and otherwise unchanged, and the access check used the same name.
C19_OnlyTrailingDotGitRemoved ==
    \A r \in Answered :
        preflight[r].response[1].success =>
            LET match == UrlMatch(preflight[r].body.repositoryUrl)
                repository == preflight[r].response[1].repository[1]
            IN  /\ repository.owner = match[1]
                /\ repository.repo = StripTrailingDotGit(match[2])
                /\ preflight[r].calls[1].owner = repository.owner
                /\ preflight[r].calls[1].repo = repository.repo

\* C20: the response of a submission is sent once, with success and the job
\* id, when the job is in the registry and its run has not ended; no step of
\* the run changes it.
C20_ResponseIndependentOfRun ==
    /\ [](\A j \in JobIds :
            response[j] # <<>> =>
                /\ response[j] = <<[status |-> 200, success |-> TRUE, jobId |-> j]>>
                /\ j \in DOMAIN uploadJobs)
    /\ [][\A j \in JobIds :
            /\ response[j] # <<>> => response'[j] = response[j]
            /\ response'[j] # response[j] =>
                  /\ j \in DOMAIN uploadJobs
                  /\ pc'[j] = "load"
                  /\ uploadJobs'[j].status = "processing"]_vars

\* the response was sent and the run has failed
C20_Witness ==
    \E j \in JobIds :
        /\ response[j] # <<>>
        /\ j \in DOMAIN uploadJobs
        /\ uploadJobs[j].status = "failed"

\* C21: a request to POST /api/upload that is refused before the job is
\* created (no file, a file that is no archive, an oversized file, job data
\* that does not parse or fails the schema) leaves the registry unchanged,
\* starts no run and makes no remote call.
C21_RefusedSubmissionCreatesNothing ==
    [][refused' # refused =>
          /\ uploadJobs' = uploadJobs
          /\ pc' = pc
          /\ run' = run
          /\ calls' = calls
          /\ response' = response]_vars

\* a request was refused by the handler while a job was running
C21_Witness ==
    /\ refused # <<>>
    /\ refused[1].stage = "handler"
    /\ pc["job1"] \in {"access", "read", "write"}

\* C22: a step of the pre-flight handler or of the job query leaves the
\* registry, the runs and their remote calls as they are, and the pre-flight
\* makes no remote call but the access check: interleaved with a running job,
\* they leave the registry what the job alone makes it.
C22_PreflightAndQueryLeaveRegistry ==
    /\ [][(polled' # polled \/ preflight' # preflight) =>
              /\ uploadJobs' = uploadJobs
              /\ pc' = pc
              /\ run' = run
              /\ calls' = calls]_vars
    /\ [](\A r \in Requests :
              \A k \in 1..Len(preflight[r].calls) :
                  preflight[r].calls[k].op = "repos.get")

\* a pre-flight was answered with success and a job polled during its run
C22_Witness ==
    /\ preflight["r1"].pc = "done"
    /\ preflight["r1"].response[1].success
    /\ polled # <<>>
    /\ polled[1].status = 200
    /\ polled[1].job[1].status = "processing"
    /\ pc["job1"] = "done"

\* C23: the progress of a job lies in 0..100 in every state and is not lower
\* after a step than before it, through processing and into completed or
\* failed, for every archive size.
C23_ProgressBoundedAndMonotone ==
    /\ [](\A j \in DOMAIN uploadJobs : uploadJobs[j].progress \in 0..100)
    /\ [][\A j \in DOMAIN uploadJobs :
              j \in DOMAIN uploadJobs' =>
                  uploadJobs'[j].progress >= uploadJobs[j].progress]_vars

\* a run failed its second entry after its progress had risen
C23_Witness ==
    \E j \in DOMAIN uploadJobs :
        /\ uploadJobs[j].status = "processing"
        /\ uploadJobs[j].progress = 50
        /\ pc[j] = "logerror"

\* the calls of a run that belong to the entry whose content read is call k:
\* from k up to the next content read
EntryCalls(j, k) ==
    {m \in k..Len(calls[j]) :
        \A l \in (k + 1)..m : calls[j][l].op # "file.async"}

\* the entry whose content read is call k failed: its read, its lookup (but
\* for a not-found) or its write was rejected
EntryFailed(j, k) ==
    \E m \in EntryCalls(j, k) :
        /\ calls[j][m].settled = "rejected"
        /\ ~(calls[j][m].op = "getContent" /\ calls[j][m].status = 404)

\* the error entries of a log that name the file
ErrorEntries(logs, fileName) ==
    {l \in 1..Len(logs) :
        /\ logs[l].level = "error"
        /\ IsPrefix(<<"Erreur pour ">> \o Text(fileName), logs[l].message)}

\* every entry of the archive of an ended run was attempted once, in archive
\* order, with at most one lookup and one write
EachEntryAttemptedOnce(j) ==
    LET files == Files(run[j].zipBuffer)
        starts == CallsTo(j, "file.async")
    IN  /\ Cardinality(starts) = Len(files)
        /\ \A e \in 1..Len(files) :
              \E k \in starts :
                  /\ calls[j][k].path = files[e]
                  /\ Cardinality({l \in starts : l < k}) = e - 1
                  /\ Cardinality({m \in EntryCalls(j, k) :
                                     calls[j][m].op = "getContent"}) <= 1
                  /\ Cardinality({m \in EntryCalls(j, k) :
                                     calls[j][m].op = "createOrUpdateFileContents"}) <= 1

\* the run of j passed the access check and has ended
LoopEnded(j) ==
    /\ pc[j] = "done"
    /\ ~run[j].zipBuffer.corrupt
    /\ \E k \in CallsTo(j, "repos.get") : calls[j][k].settled = "resolved"

\* C24: whichever entries fail in their read, lookup or write, every entry
\* of the archive is attempted exactly once, the log of the ended job holds
\* exactly one error entry naming each failed file, and the job is completed.
C24_EveryEntryAttemptedFailuresLogged ==
    \A j \in DOMAIN uploadJobs :
        LoopEnded(j) =>
            /\ EachEntryAttemptedOnce(j)
            /\ uploadJobs[j].status = "completed"
            /\ \A k \in CallsTo(j, "file.async") :
                  EntryFailed(j, k) =>
                      Cardinality(ErrorEntries(uploadJobs[j].logs, calls[j][k].path)) = 1

\* the operations of the remote service that look up or write a file
FileOps == {"getContent", "createOrUpdateFileContents"}

\* C25: a lookup or a write is sent only after the access check of the same
\* run has succeeded and totalFiles has been recorded, and only while the job
\* is processing: never while it is pending, completed or failed.
C25_WritesAfterValidationWhileProcessing ==
    /\ [][\A j \in JobIds :
              (Len(calls'[j]) > Len(calls[j]) /\ Last(calls'[j]).op \in FileOps) =>
                  /\ calls[j][1].op = "repos.get"
                  /\ calls[j][1].settled = "resolved"
                  /\ uploadJobs[j].totalFiles = FileCount(run[j].zipBuffer)
                  /\ uploadJobs[j].totalFiles > 0
                  /\ uploadJobs[j].status = "processing"
                  /\ uploadJobs'[j].status = "processing"]_vars
    /\ [](\A j \in JobIds :
              \A k \in 1..Len(calls[j]) :
                  (calls[j][k].op \in FileOps /\ calls[j][k].settled = "pending") =>
                      uploadJobs[j].status = "processing")

\* a write is in flight after a lookup of the same run
C25_Witness ==
    \E j \in DOMAIN uploadJobs :
        /\ Len(calls[j]) > 2
        /\ Last(calls[j]).op = "createOrUpdateFileContents"
        /\ Last(calls[j]).settled = "pending"
        /\ calls[j][Len(calls[j]) - 1].op = "getContent"

\* the log entry the run stores for a file: uploaded, or failed
NamesFile(entry, fileName) ==
    \/ entry.message = <<"Fichier uploade: ">> \o Text(fileName)
    \/ IsPrefix(<<"Erreur pour ">> \o Text(fileName), entry.message)

\* C26: the entries of a run are processed one after the other in archive
\* order: the content read of an entry is sent only when every earlier call
\* has settled and the log entry of the entry before it is stored, and at
\* most one call of a job is in flight at any time.
C26_EntriesStrictlySequential ==
    /\ [](\A j \in JobIds :
              \A k \in 1..Len(calls[j]) :
                  calls[j][k].settled = "pending" => k = Len(calls[j]))
    /\ [][\A j \in JobIds :
              (Len(calls'[j]) > Len(calls[j]) /\ Last(calls'[j]).op = "file.async") =>
                  LET files == Files(run[j].zipBuffer)
                      e == Cardinality(CallsTo(j, "file.async"))
                  IN  /\ Last(calls'[j]).path = files[e + 1]
                      /\ \A k \in 1..Len(calls[j]) : calls[j][k].settled # "pending"
                      /\ e > 0 => NamesFile(Last(uploadJobs[j].logs), files[e])]_vars

\* the content read of the second entry is in flight after the first entry
\* failed in its write
C26_Witness ==
    \E j \in DOMAIN uploadJobs :
        /\ Cardinality(CallsTo(j, "file.async")) = 2
        /\ Last(calls[j]).op = "file.async"
        /\ Last(calls[j]).settled = "pending"
        /\ RejectedCalls(j, "createOrUpdateFileContents") # {}

\* p is 100 * i / n rounded to the nearest integer, a half upwards
IsRoundedPercentage(p, i, n) ==
    /\ 2 * n * p <= 200 * i + n
    /\ 200 * i + n < 2 * n * (p + 1)

\* C27: when the lookup or the write of the entry with zero-based index i of
\* N is sent, the stored record has currentFile = the archive path of the
\* entry, filesProcessed = i and progress = round(100 * i / N); filesProcessed
\* becomes N only in the update that completes the job.
C27_RecordAtWriteStart ==
    [][\A j \in JobIds :
          /\ (Len(calls'[j]) > Len(calls[j]) /\ Last(calls'[j]).op \in FileOps) =>
                LET last == Len(calls[j])
                    read == IF calls[j][last].op = "file.async" THEN last ELSE last - 1
                    i == Cardinality(CallsTo(j, "file.async")) - 1
                    fileName == calls[j][read].path
                    n == FileCount(run[j].zipBuffer)
                IN  /\ calls[j][read].op = "file.async"
                    /\ fileName = Files(run[j].zipBuffer)[i + 1]
                    /\ uploadJobs'[j].currentFile = Text(fileName)
                    /\ uploadJobs'[j].filesProcessed = i
                    /\ IsRoundedPercentage(uploadJobs'[j].progress, i, n)
          /\ (/\ j \in DOMAIN uploadJobs
              /\ uploadJobs[j].filesProcessed # FileCount(run[j].zipBuffer)
              /\ uploadJobs'[j].filesProcessed = FileCount(run[j].zipBuffer)) =>
                (uploadJobs[j].status = "processing" /\ uploadJobs'[j].status = "completed")]_vars

\* the write of the second of two entries is in flight
C27_Witness ==
    \E j \in DOMAIN uploadJobs :
        /\ FileCount(run[j].zipBuffer) = 2
        /\ calls[j] # <<>>
        /\ Last(calls[j]).op = "createOrUpdateFileContents"
        /\ Last(calls[j]).settled = "pending"
        /\ uploadJobs[j].filesProcessed = 1

\* the message of the exception that ended the run of j: of the archive
\* decoder, or of the access validator
ExceptionMessage(j) ==
    IF run[j].zipBuffer.corrupt
    THEN LoadOutcome(run[j].zipBuffer).message
    ELSE IF calls'[j] = <<>>
    THEN ValidatorError(ErrInvalidUrl).message
    ELSE ValidatorError(Err(calls'[j][1].status, calls'[j][1].error)).message

\* the text ends with the message
Carries(text, message) ==
    /\ Len(text) >= Len(message)
    /\ SubSeq(text, Len(text) - Len(message) + 1, Len(text)) = message

\* the step of j in which its run is ended by an exception
RunFails(j) ==
    /\ j \in DOMAIN uploadJobs
    /\ uploadJobs[j].status # "failed"
    /\ uploadJobs'[j].status = "failed"

\* C28: when an exception escapes the run, the record gets status failed and
\* the message of the exception as its error, and an error entry carrying
\* that message is appended to the log the job had: the earlier entries stay.
C28_FatalErrorAppendedToLog ==
    [][\A j \in JobIds :
          RunFails(j) =>
              /\ uploadJobs'[j].error = ExceptionMessage(j)
              /\ Len(uploadJobs'[j].logs) = Len(uploadJobs[j].logs) + 1
              /\ IsPrefix(uploadJobs[j].logs, uploadJobs'[j].logs)
              /\ Last(uploadJobs'[j].logs).level = "error"
              /\ Carries(Last(uploadJobs'[j].logs).message, ExceptionMessage(j))]_vars

\* the record a run ends with when it is the only one, from its submission
\* and the outcomes of its own calls: failed by the decoder, failed by the
\* validator, or completed
FinalAlone(j) ==
    LET created == NewUploadJob(run[j].jobData, j, clock)
        n == FileCount(run[j].zipBuffer)
        fatal(message) ==
            [status |-> "failed", error |-> message,
             logs |-> <<LogEntry(clock, "error", <<"Erreur fatale: ">> \o message)>>]
        validator == IF calls[j] = <<>>
                     THEN ValidatorError(ErrInvalidUrl).message
                     ELSE ValidatorError(Err(calls[j][1].status, calls[j][1].error)).message
    IN  IF run[j].zipBuffer.corrupt
        THEN Spread(created, fatal(LoadOutcome(run[j].zipBuffer).message))
        ELSE IF calls[j] = <<>> \/ calls[j][1].settled = "rejected"
        THEN Spread(Spread(created, [totalFiles |-> n]), fatal(validator))
        ELSE Spread(Spread(created,
                           [totalFiles |-> n, filesProcessed |-> n,
                            status |-> "completed", progress |-> 100,
                            logs |-> <<LogEntry(clock, "info",
                                                <<"Upload termine avec succes">>)>>]),
                    IF n = 0
                    THEN <<>>
                    ELSE [currentFile |-> Text(Files(run[j].zipBuffer)[n])])

\* C29: with two jobs running at once, a step changes the record of at most
\* one job, the one whose run took the step, and the record a job ends with
\* is the one it ends with when it runs alone.
C29_JobsDoNotTouchEachOther ==
    /\ [][\A j \in DOMAIN uploadJobs :
              uploadJobs'[j] # uploadJobs[j] =>
                  /\ pc'[j] # pc[j]
                  /\ \A k \in DOMAIN uploadJobs \ {j} :
                        uploadJobs'[k] = uploadJobs[k] /\ pc'[k] = pc[k]]_vars
    /\ [](\A j \in DOMAIN uploadJobs :
              pc[j] = "done" => uploadJobs[j] = FinalAlone(j))

\* both jobs have ended, one failed and one completed after a failed entry
C29_Witness ==
    /\ DOMAIN uploadJobs = JobIds
    /\ \A j \in JobIds : pc[j] = "done"
    /\ uploadJobs["job1"].status = "failed"
    /\ uploadJobs["job2"].status = "completed"
    /\ RejectedCalls("job2", "createOrUpdateFileContents") # {}

\* the archive path of the entry the run of j is at: the one its last content
\* read names
CurrentEntry(j) ==
    LET reads == CallsTo(j, "file.async") IN
    calls[j][CHOOSE k \in reads : \A l \in reads : l <= k].path

\* C30: a lookup or write goes to the archive path of the entry when
\* preserveStructure is true and to the last segment of that path when it is
\* false; currentFile and the log entry of the entry name the archive path.
C30_DestinationPath ==
    [][\A j \in JobIds :
          /\ (Len(calls'[j]) > Len(calls[j]) /\ Last(calls'[j]).op \in FileOps) =>
                /\ Last(calls'[j]).path =
                      IF run[j].jobData.preserveStructure
                      THEN CurrentEntry(j)
                      ELSE <<CurrentEntry(j)[Len(CurrentEntry(j))]>>
                /\ uploadJobs'[j].currentFile = Text(CurrentEntry(j))
          /\ (/\ j \in DOMAIN uploadJobs
              /\ Len(uploadJobs'[j].logs) = Len(uploadJobs[j].logs) + 1) =>
                NamesFile(Last(uploadJobs'[j].logs), CurrentEntry(j))]_vars

\* a file in a folder was written to its base name, and logged by its
\* archive path
C30_Witness ==
    \E j \in DOMAIN uploadJobs :
        /\ ~run[j].jobData.preserveStructure
        /\ \E k \in CallsTo(j, "createOrUpdateFileContents") :
              calls[j][k].path = <<"2">>
        /\ NamesFile(Last(uploadJobs[j].logs), <<"src", "2">>)

\* the fields of a record that come from the submission
SubmittedFields ==
    {"githubToken", "repositoryUrl", "targetBranch", "commitMessage",
     "preserveStructure", "overwriteFiles"}

\* the fields of a record the updates of a run name, and the stamp of the
\* update
RunFields ==
    {"status", "progress", "currentFile", "filesProcessed", "totalFiles", "logs",
     "error", "updatedAt"}

\* C31: a step never removes a job from the registry and changes no field of
\* a stored record other than status, progress, currentFile, filesProcessed,
\* totalFiles, logs, error and updatedAt: id, the submitted fields and
\* createdAt stay as they are; the id of a stored record is the key it is
\* stored under, and its submitted fields are those of the submission.
C31_IdentityAndSubmissionNeverChange ==
    /\ [][\A j \in DOMAIN uploadJobs :
              /\ j \in DOMAIN uploadJobs'
              /\ \A k \in (DOMAIN uploadJobs[j] \cup DOMAIN uploadJobs'[j]) \ RunFields :
                    /\ k \in DOMAIN uploadJobs[j]
                    /\ k \in DOMAIN uploadJobs'[j]
                    /\ uploadJobs'[j][k] = uploadJobs[j][k]]_vars
    /\ [](\A j \in DOMAIN uploadJobs :
              /\ SubmittedFields \cup {"id", "createdAt"} \subseteq DOMAIN uploadJobs[j]
              /\ uploadJobs[j].id = j
              /\ \A k \in SubmittedFields : uploadJobs[j][k] = run[j].jobData[k])

\* a job created after time 0 has completed at a later time, after an entry
\* of its archive failed
C31_Witness ==
    \E j \in DOMAIN uploadJobs :
        /\ uploadJobs[j].status = "completed"
        /\ uploadJobs[j].createdAt > 0
        /\ uploadJobs[j].updatedAt > uploadJobs[j].createdAt
        /\ uploadJobs[j].totalFiles > 0
        /\ RejectedCalls(j, "createOrUpdateFileContents") # {}

\* the content read of the e-th entry among the calls of the run of j
EntryRead(j, e) ==
    LET reads == CallsTo(j, "file.async") IN
    CHOOSE k \in reads : Cardinality({l \in reads : l < k}) = e - 1

\* the log holds the entry-count entry and then one entry for each of the
\* first i files, in archive order: info for a file that was uploaded, error
\* for one that failed
CountThenFileEntries(j, i) ==
    LET files == Files(run[j].zipBuffer)
        logs == uploadJobs[j].logs
    IN  /\ Len(logs) = i + 1
        /\ logs[1].level = "info"
        /\ logs[1].message = <<ToString(Len(files)), " fichiers detectes dans le ZIP">>
        /\ \A e \in 1..i :
              IF EntryFailed(j, EntryRead(j, e))
              THEN /\ logs[e + 1].level = "error"
                   /\ IsPrefix(<<"Erreur pour ">> \o Text(files[e]), logs[e + 1].message)
              ELSE /\ logs[e + 1].level = "info"
                   /\ logs[e + 1].message = <<"Fichier uploade: ">> \o Text(files[e])

\* C32: at the head of the loop, after i entries, the log of the job is the
\* entry-count entry followed by exactly i per-file entries in archive order;
\* so just before the final update of a run with N entries it holds N
\* per-file entries: none is lost between the read of the record and the
\* update that appends to it, also while another job runs.
C32_NoFileEntryLostBeforeFinalUpdate ==
    \A j \in DOMAIN uploadJobs :
        pc[j] = "loop" => CountThenFileEntries(j, run[j].i)

\* two jobs are stored, and one stands before its final update after two
\* entries, one uploaded and one failed
C32_Witness ==
    /\ DOMAIN uploadJobs = JobIds
    /\ \E j \in JobIds :
          /\ pc[j] = "loop"
          /\ run[j].i = 2
          /\ Len(Files(run[j].zipBuffer)) = 2
          /\ uploadJobs[j].logs[2].level = "error"
          /\ uploadJobs[j].logs[3].level = "info"
          /\ \E k \in JobIds \ {j} : uploadJobs[k].status = "processing"

\* call k of the run of j is a lookup that failed with an error other than
\* not-found
LookupFailedAt(j, k) ==
    /\ calls[j][k].op = "getContent"
    /\ calls[j][k].settled = "rejected"
    /\ calls[j][k].status # 404

\* the message of the upload error for a path and the message of its cause
UploadErrorText(path, cause) ==
    <<"Erreur lors de l'upload de ">> \o Text(path) \o <<": ">> \o cause

\* C33: with overwrite, a lookup that fails with an error other than
\* not-found is the last call made for its entry: no write follows it, and
\* the call after it, if any, is the content read of the next entry; the
\* error raised is the upload error of that path, the next step of the run
\* appends one error entry for the file carrying it, leaves the job
\* processing without a terminal error, and moves on to the next entry.
C33_FailedLookupSkipsWriteAndGoesOn ==
    /\ [](\A j \in DOMAIN uploadJobs :
              \A k \in 1..Len(calls[j]) :
                  LookupFailedAt(j, k) =>
                      /\ run[j].jobData.overwriteFiles
                      /\ k < Len(calls[j]) =>
                            /\ calls[j][k + 1].op = "file.async"
                            /\ calls[j][k + 1].path # calls[j][k - 1].path
                      /\ (k = Len(calls[j]) /\ pc[j] # "done") =>
                            /\ pc[j] \in {"logerror", "loop"}
                            /\ run[j].error.message =
                                  UploadErrorText(calls[j][k].path, calls[j][k].error))
    /\ [][\A j \in DOMAIN uploadJobs :
              (/\ calls[j] # <<>>
               /\ LookupFailedAt(j, Len(calls[j]))
               /\ pc[j] = "logerror"
               /\ pc'[j] # pc[j]) =>
                  LET fileName == calls[j][Len(calls[j]) - 1].path IN
                  /\ uploadJobs'[j].logs =
                        Append(uploadJobs[j].logs,
                               [timestamp |-> clock,
                                level |-> "error",
                                message |->
                                    <<"Erreur pour ">> \o Text(fileName) \o <<": ">>
                                    \o UploadErrorText(Last(calls[j]).path,
                                                       Last(calls[j]).error)])
                  /\ uploadJobs'[j].status = "processing"
                  /\ "error" \notin DOMAIN uploadJobs'[j]
                  /\ calls'[j] = calls[j]
                  /\ run'[j].i = run[j].i + 1
                  /\ pc'[j] = "loop"]_vars

\* the lookup of the first entry failed with a server error, its failure is
\* in the log, and the second entry has been written
C33_Witness ==
    \E j \in DOMAIN uploadJobs :
        /\ Len(calls[j]) >= 6
        /\ LookupFailedAt(j, 3)
        /\ calls[j][3].status = 500
        /\ calls[j][4].op = "file.async"
        /\ Last(calls[j]).op = "createOrUpdateFileContents"
        /\ Last(calls[j]).settled = "resolved"
        /\ pc[j] = "loop"
        /\ uploadJobs[j].logs[2].level = "error"
        /\ uploadJobs[j].logs[3].level = "info"

\* C34: without overwrite a run sends no lookup; every content read that
\* succeeded is followed by exactly one write, which carries no sha, and
\* every write follows such a read directly, whatever the remote answers to
\* the write.
C34_NoOverwriteWritesOnceWithoutSha ==
    \A j \in DOMAIN uploadJobs :
        ~run[j].jobData.overwriteFiles =>
            /\ CallsTo(j, "getContent") = {}
            /\ \A k \in 1..Len(calls[j]) :
                  /\ calls[j][k].op = "createOrUpdateFileContents" =>
                        /\ calls[j][k].sha = ""
                        /\ k > 1
                        /\ calls[j][k - 1].op = "file.async"
                        /\ calls[j][k - 1].settled = "resolved"
                        /\ k < Len(calls[j]) => calls[j][k + 1].op = "file.async"
                  /\ (calls[j][k].op = "file.async" /\ calls[j][k].settled = "resolved") =>
                        /\ k < Len(calls[j])
                        /\ calls[j][k + 1].op = "createOrUpdateFileContents"

\* a run without overwrite has written two files: the remote refused the
\* first write (the path exists) and accepted the second
C34_Witness ==
    \E j \in DOMAIN uploadJobs :
        /\ ~run[j].jobData.overwriteFiles
        /\ Len(calls[j]) = 5
        /\ calls[j][3].op = "createOrUpdateFileContents"
        /\ calls[j][3].settled = "rejected"
        /\ calls[j][3].status = 422
        /\ calls[j][5].op = "createOrUpdateFileContents"
        /\ calls[j][5].settled = "resolved"

\* C35: a stored job has an error field exactly when its status is failed,
\* and the error of a failed job is a message, not an empty text.
C35_ErrorSetIffFailed ==
    \A j \in DOMAIN uploadJobs :
        /\ "error" \in DOMAIN uploadJobs[j] <=> uploadJobs[j].status = "failed"
        /\ uploadJobs[j].status = "failed" => uploadJobs[j].error # <<>>

\* a job failed in the access check, after the entries of its archive were
\* counted, and carries the message of the validator
C35_Witness ==
    \E j \in DOMAIN uploadJobs :
        /\ uploadJobs[j].status = "failed"
        /\ uploadJobs[j].totalFiles = 2
        /\ "error" \in DOMAIN uploadJobs[j]
        /\ uploadJobs[j].error = <<"Token GitHub invalide ou expire">>

\* C36: when the response of a submission is sent the job is stored with
\* status processing, and from then on it is never pending: a poll of a job
\* whose response has been sent finds it and never returns status pending.
C36_RespondedJobNeverPending ==
    /\ [][\A j \in JobIds :
              response'[j] # response[j] =>
                  /\ j \in DOMAIN uploadJobs'
                  /\ uploadJobs'[j].status = "processing"]_vars
    /\ [](\A j \in JobIds :
              response[j] # <<>> =>
                  /\ j \in DOMAIN uploadJobs
                  /\ uploadJobs[j].status # "pending")
    /\ [][polled' # polled =>
              \A j \in JobIds :
                  (/\ response[j] # <<>>
                   /\ polled' = <<QueryResponse(GetUploadJob(uploadJobs, j))>>) =>
                      /\ polled'[1].status = 200
                      /\ polled'[1].job[1].id = j
                      /\ polled'[1].job[1].status # "pending"]_vars

\* a poll right after the response: the job is processing, its archive not
\* yet decoded
C36_Witness ==
    /\ response["job1"] # <<>>
    /\ pc["job1"] = "load"
    /\ polled # <<>>
    /\ polled[1].status = 200
    /\ polled[1].job[1].id = "job1"
    /\ polled[1].job[1].status = "processing"
    /\ polled[1].job[1].totalFiles = 0

====
